---------------------------- MODULE Spec2Model ----------------------------
(***************************************************************************)
(* Model of the 2D collision engine (shape_collisions.cpp) and of the      *)
(* interactive polygon geometry manager (polygon_geom_manager.cpp).        *)
(*                                                                         *)
(* Points and vectors are pairs <<x, y>> of integers.  Optional values     *)
(* (OPT_VECTOR2I, null output slots) are modelled by the value NoPt.       *)
(***************************************************************************)
EXTENDS Integers, Sequences, FiniteSets, TLC

(***************************************************************************)
(* Bounds of the model.                                                    *)
(***************************************************************************)
GridMaxX == 1
GridMaxY == 1
MaxLocked == 4
MaxClearance == 2
MaxRadius == 2
MaxOffset == 3
MaxWidth == 2
MaxSubShapes == 2

Grid == (0..GridMaxX) \X (0..GridMaxY)

NoPt == <<>>

(***************************************************************************)
(* Integer helpers: C++ truncating division, (int) sqrt(), rescale().      *)
(***************************************************************************)
Abs(a) == IF a < 0 THEN -a ELSE a

Sgn(a) == IF a < 0 THEN -1 ELSE 1

TDiv(a, b) == IF (a < 0) # (b < 0) THEN -(Abs(a) \div Abs(b)) ELSE Abs(a) \div Abs(b)

RECURSIVE SqrtFrom(_, _)
SqrtFrom(n, k) == IF (k + 1) * (k + 1) > n THEN k ELSE SqrtFrom(n, k + 1)

ISqrt(n) == SqrtFrom(n, 0)

CeilSqrt(n) == IF ISqrt(n) * ISqrt(n) = n THEN ISqrt(n) ELSE ISqrt(n) + 1

\* rescale( aNumerator, aValue, aDenominator ) on the product numerator.
RescaleRounded(numerator, aDenominator) ==
    TDiv(numerator + (IF (numerator < 0) # (aDenominator < 0) THEN -1 ELSE 1)
                        * TDiv(aDenominator, 2),
         aDenominator)

Rescale(aNumerator, aValue, aDenominator) == RescaleRounded(aNumerator * aValue, aDenominator)

Min2(a, b) == IF a < b THEN a ELSE b

Max2(a, b) == IF a > b THEN a ELSE b

(***************************************************************************)
(* VECTOR2I                                                                *)
(***************************************************************************)
VAdd(u, v) == <<u[1] + v[1], u[2] + v[2]>>

VSub(u, v) == <<u[1] - v[1], u[2] - v[2]>>

VNeg(u) == <<-u[1], -u[2]>>

Dot(u, v) == u[1] * v[1] + u[2] * v[2]

Cross(u, v) == u[1] * v[2] - u[2] * v[1]

SquaredEuclideanNorm(u) == u[1] * u[1] + u[2] * u[2]

EuclideanNorm(u) == ISqrt(SquaredEuclideanNorm(u))

\* VECTOR2<T>::Resize: each component is sqrt( rescale( l_new^2, x^2, l_cur^2 ) )
\* truncated to int, with the sign of the component and of the new length.
Resize(u, aNewLength) ==
    IF u[1] = 0 /\ u[2] = 0 THEN <<0, 0>>
    ELSE LET lcur == SquaredEuclideanNorm(u)
             lnew == aNewLength * aNewLength
             sg   == IF aNewLength < 0 THEN -1 ELSE IF aNewLength = 0 THEN 0 ELSE 1
         IN  << Sgn(u[1]) * ISqrt(Rescale(lnew, u[1] * u[1], lcur)) * sg,
                Sgn(u[2]) * ISqrt(Rescale(lnew, u[2] * u[2], lcur)) * sg >>

\* VECTOR2<T>::Rotate( M_PI_4 ): T( x*ca - y*sa ), T( x*sa + y*ca ), truncated.
TruncOverSqrt2(n) == Sgn(n) * ISqrt((n * n) \div 2)

Rotate45(u) == << TruncOverSqrt2(u[1] - u[2]), TruncOverSqrt2(u[1] + u[2]) >>

(***************************************************************************)
(* SEG: a segment is a pair <<A, B>> of points.                            *)
(***************************************************************************)
\* SEG::NearestPoint: d = B - A, l_squared = d.Dot( d ), t = d.Dot( aP - A ).
NearestPointAt(s, d, l_squared, t) ==
    IF l_squared = 0 THEN s[1]
    ELSE IF t < 0 THEN s[1]
    ELSE IF t > l_squared THEN s[2]
    ELSE VAdd(s[1], [k \in 1..2 |-> Rescale(t, d[k], l_squared)])

NearestPointAlong(s, d, aP) == NearestPointAt(s, d, Dot(d, d), Dot(d, VSub(aP, s[1])))

SegNearestPoint(s, aP) == NearestPointAlong(s, VSub(s[2], s[1]), aP)

SegSquaredDistancePt(s, aP) == SquaredEuclideanNorm(VSub(SegNearestPoint(s, aP), aP))

SegDistancePt(s, aP) == ISqrt(SegSquaredDistancePt(s, aP))

SegContains(s, aP) == SegSquaredDistancePt(s, aP) < 1

\* SEG::Intersect( aSeg, aIgnoreEndpoints, aLines ); NoPt when there is none.
\* e = B - A, f = aSeg.B - aSeg.A, ac = aSeg.A - A, d = f.Cross( e ),
\* p = f.Cross( ac ), q = e.Cross( ac ).
IntersectAt(aSeg, f, d, p, q, aIgnoreEndpoints, aLines) ==
    IF d = 0 THEN NoPt
    ELSE IF ~aLines /\ d > 0 /\ (q < 0 \/ q > d \/ p < 0 \/ p > d) THEN NoPt
    ELSE IF ~aLines /\ d < 0 /\ (q < d \/ p < d \/ p > 0 \/ q > 0) THEN NoPt
    ELSE IF ~aLines /\ aIgnoreEndpoints /\ (q = 0 \/ q = d) /\ (p = 0 \/ p = d)
         THEN NoPt
    ELSE VAdd(aSeg[1], [k \in 1..2 |-> Rescale(q, f[k], d)])

IntersectVectors(aSeg, e, f, ac, aIgnoreEndpoints, aLines) ==
    IntersectAt(aSeg, f, Cross(f, e), Cross(f, ac), Cross(e, ac), aIgnoreEndpoints, aLines)

SegIntersect(s, aSeg, aIgnoreEndpoints, aLines) ==
    IntersectVectors(aSeg, VSub(s[2], s[1]), VSub(aSeg[2], aSeg[1]), VSub(aSeg[1], s[1]),
                     aIgnoreEndpoints, aLines)

IntersectLines(s, aSeg) == SegIntersect(s, aSeg, FALSE, TRUE)

\* SEG::Collinear: both end points of aSeg lie on the line through s.
SegLineDistance(s, aP) ==
    LET a == s[1][2] - s[2][2]
        b == s[2][1] - s[1][1]
        c == -a * s[1][1] - b * s[1][2]
    IN  IF a = 0 /\ b = 0 THEN 0
        ELSE TDiv(a * aP[1] + b * aP[2] + c, ISqrt(a * a + b * b))

SegCollinear(s, aSeg) ==
    /\ Abs(SegLineDistance(s, aSeg[1])) <= 1
    /\ Abs(SegLineDistance(s, aSeg[2])) <= 1

(***************************************************************************)
(* SHAPE_LINE_CHAIN point sequences                                        *)
(***************************************************************************)
\* SHAPE_LINE_CHAIN::Append: a point equal to the current last point is dropped.
ChainAppend(pts, aP) ==
    IF Len(pts) = 0 \/ pts[Len(pts)] # aP THEN Append(pts, aP) ELSE pts

ChainRemoveLast(pts) == SubSeq(pts, 1, Len(pts) - 1)

SegmentCount(pts, closed) == Max2(0, Len(pts) - 1 + (IF closed THEN 1 ELSE 0))

\* SHAPE_LINE_CHAIN::CSegment, 0-based index as in the source.
CSegment(pts, closed, i) ==
    IF i = Len(pts) - 1 /\ closed THEN <<pts[i + 1], pts[1]>>
    ELSE <<pts[i + 1], pts[i + 2]>>

\* SHAPE_LINE_CHAIN::SelfIntersecting for the pair of segments s1 < s2.
SegPairIntersects(pts, closed, s1, s2) ==
    LET a == CSegment(pts, closed, s1)
        b == CSegment(pts, closed, s2)
    IN  \/ (s1 + 1 # s2 /\ SegContains(a, b[1]))
        \/ (SegContains(a, b[2])
              /\ ~(closed /\ s1 = 0 /\ s2 = SegmentCount(pts, closed) - 1))
        \/ SegIntersect(a, b, TRUE, FALSE) # NoPt

SelfIntersecting(pts, closed) ==
    \E s1 \in 0..(SegmentCount(pts, closed) - 1) :
        \E s2 \in (s1 + 1)..(SegmentCount(pts, closed) - 1) :
            SegPairIntersects(pts, closed, s1, s2)

\* GetVectorSnapped45 (geometry_utils.h)
GetVectorSnapped45(v) ==
    LET ax == Abs(v[1])
        ay == Abs(v[2])
    IN  IF ax > ay * 2 THEN <<v[1], 0>>
        ELSE IF ay > ax * 2 THEN <<0, v[2]>>
        ELSE IF ax > ay THEN <<v[1], Sgn(v[2]) * ax>>
        ELSE <<Sgn(v[1]) * ay, v[2]>>

(***************************************************************************)
(* Shapes.  A shape is a record with a type tag and the fields of its      *)
(* variant; an ARC carries the polyline ConvertToPolyline() yields.        *)
(***************************************************************************)
Circle(c, r) == [type |-> "SH_CIRCLE", c |-> c, r |-> r]

Rect(p0, size) == [type |-> "SH_RECT", p0 |-> p0, size |-> size]

Segment(a, b, w) == [type |-> "SH_SEGMENT", seg |-> <<a, b>>, w |-> w]

LineChain(pts, closed) == [type |-> "SH_LINE_CHAIN", pts |-> pts, closed |-> closed]

Simple(pts) == [type |-> "SH_SIMPLE", pts |-> pts, closed |-> TRUE]

Arc(pts) == [type |-> "SH_ARC", pts |-> pts]

Compound(shapes) == [type |-> "SH_COMPOUND", shapes |-> shapes]

ConvertToPolyline(arc) == LineChain(arc.pts, FALSE)

\* SHAPE_RECT::Outline: the closed chain p0, top-left, top-right, bottom-right, p0.
Outline(rect) ==
    LET x == rect.p0[1]
        y == rect.p0[2]
        w == rect.size[1]
        h == rect.size[2]
        RECURSIVE App(_, _, _)
        App(pts, new, i) == IF i > Len(new) THEN pts
                            ELSE App(ChainAppend(pts, new[i]), new, i + 1)
    IN  LineChain(App(<<>>, << <<x, y>>, <<x, y + h>>, <<x + w, y + h>>, <<x + w, y>>, <<x, y>> >>, 1),
                  TRUE)

GetSegmentCount(chain) == SegmentCount(chain.pts, chain.closed)

GetSegment(chain, i) == CSegment(chain.pts, chain.closed, i)

\* SHAPE_LINE_CHAIN_BASE::PointInside with accuracy 0: crossing number.
PointInside(chain, aPt) ==
    LET n == Len(chain.pts)
        Crosses(i) ==
            LET p1   == chain.pts[i]
                p2   == chain.pts[IF i = n THEN 1 ELSE i + 1]
                diff == VSub(p2, p1)
            IN  /\ diff[2] # 0
                /\ (p1[2] > aPt[2]) # (p2[2] > aPt[2])
                /\ aPt[1] - p1[1] < Rescale(diff[1], aPt[2] - p1[2], diff[2])
    IN  /\ chain.closed
        /\ n >= 3
        /\ Cardinality({i \in 1..n : Crosses(i)}) % 2 = 1

SetMin(S) == CHOOSE m \in S : \A x \in S : m <= x

\* SEG::SquaredDistance( SEG )
SegSquaredDistance(s, aSeg) ==
    IF SegIntersect(s, aSeg, FALSE, FALSE) # NoPt THEN 0
    ELSE SetMin({SegSquaredDistancePt(q[1], q[2]) :
                    q \in {<<aSeg, s[1]>>, <<aSeg, s[2]>>, <<s, aSeg[1]>>, <<s, aSeg[2]>>}})

(***************************************************************************)
(* Output slots.  o.wA, o.wL, o.wM say whether aActual, aLocation, aMTV    *)
(* are non-null; o.actual, o.loc, o.mtv are the values the caller put      *)
(* there.  A routine returns whether it hit and the slots' final values.   *)
(***************************************************************************)
Slots(wA, wL, wM, actual, loc, mtv) ==
    [wA |-> wA, wL |-> wL, wM |-> wM, actual |-> actual, loc |-> loc, mtv |-> mtv]

Result(hit, o) == [hit |-> hit, actual |-> o.actual, loc |-> o.loc, mtv |-> o.mtv]

Miss(o) == Result(FALSE, o)

SetActual(o, v) == IF o.wA THEN [o EXCEPT !.actual = v] ELSE o

SetLocation(o, v) == IF o.wL THEN [o EXCEPT !.loc = v] ELSE o

SetMTV(o, v) == IF o.wM THEN [o EXCEPT !.mtv = v] ELSE o

\* The slots of a result, to hand on or rewrite.
After(o, r) == [o EXCEPT !.actual = r.actual, !.loc = r.loc, !.mtv = r.mtv]

\* The slots the segment loops pass to the per-segment test: collision_dist and pn.
SegSlots(o) == Slots(o.wA \/ o.wL, o.wL, FALSE, 0, <<0, 0>>, <<0, 0>>)

INT_MAX == 2147483647

(***************************************************************************)
(* Shape-versus-segment tests of the shape classes.                        *)
(***************************************************************************)
\* SHAPE_CIRCLE::Collide( SEG ): pn = aSeg.NearestPoint( m_center ).
CircleCollideAt(aA, minDist, pn, dist_sq, o) ==
    IF dist_sq = 0 \/ dist_sq < minDist * minDist
    THEN Result(TRUE, SetActual(SetLocation(o, pn), Max2(0, ISqrt(dist_sq) - aA.r)))
    ELSE Miss(o)

CircleCollideNear(aA, minDist, pn, o) ==
    CircleCollideAt(aA, minDist, pn, SquaredEuclideanNorm(VSub(pn, aA.c)), o)

CircleCollideSeg(aA, aSeg, aClearance, o) ==
    CircleCollideNear(aA, aClearance + aA.r, SegNearestPoint(aSeg, aA.c), o)

\* SHAPE_RECT::Contains( VECTOR2I ), and the inside test of the rect-circle routine.
RectContains(aA, aP) ==
    /\ aP[1] >= aA.p0[1] /\ aP[1] <= aA.p0[1] + aA.size[1]
    /\ aP[2] >= aA.p0[2] /\ aP[2] <= aA.p0[2] + aA.size[2]

\* The segment loop of SHAPE_LINE_CHAIN_BASE::Collide( SEG ): the index of the
\* first segment of the chain at the least squared distance from aSeg (-1: none).
RECURSIVE NearestSegment(_, _, _, _, _)
RECURSIVE NearestSegmentStep(_, _, _, _, _, _)
NearestSegment(chain, aSeg, i, best, closest_dist_sq) ==
    IF i >= GetSegmentCount(chain) THEN [i |-> best, dist_sq |-> closest_dist_sq]
    ELSE NearestSegmentStep(chain, aSeg, i, best, closest_dist_sq,
                            SegSquaredDistance(GetSegment(chain, i), aSeg))

NearestSegmentStep(chain, aSeg, i, best, closest_dist_sq, dist_sq) ==
    IF best = -1 \/ dist_sq < closest_dist_sq
    THEN NearestSegment(chain, aSeg, i + 1, i, dist_sq)
    ELSE NearestSegment(chain, aSeg, i + 1, best, closest_dist_sq)

ChainSegResult(chain, aSeg, aClearance, o, found) ==
    IF found.i # -1 /\ (found.dist_sq = 0 \/ found.dist_sq < aClearance * aClearance)
    THEN Result(TRUE, SetActual(SetLocation(o,
                    SegNearestPoint(GetSegment(chain, found.i), aSeg[1])), ISqrt(found.dist_sq)))
    ELSE Miss(o)

OutlineCollideSeg(chain, aSeg, aClearance, o) ==
    ChainSegResult(chain, aSeg, aClearance, o, NearestSegment(chain, aSeg, 0, -1, 0))

\* SHAPE_RECT::Collide( SEG )
RectCollideSeg(aA, aSeg, aClearance, o) ==
    IF RectContains(aA, aSeg[1]) THEN Result(TRUE, SetActual(SetLocation(o, aSeg[1]), 0))
    ELSE IF RectContains(aA, aSeg[2]) THEN Result(TRUE, SetActual(SetLocation(o, aSeg[2]), 0))
    ELSE OutlineCollideSeg(Outline(aA), aSeg, aClearance, o)

\* SHAPE_SEGMENT::Collide( SEG )
SegmentCollideAt(aA, aSeg, min_dist, dist_sq, o) ==
    IF dist_sq = 0 \/ dist_sq < min_dist * min_dist
    THEN Result(TRUE, SetActual(SetLocation(o, SegNearestPoint(aA.seg, aSeg[1])),
                                Max2(0, ISqrt(dist_sq) - (aA.w + 1) \div 2)))
    ELSE Miss(o)

SegmentCollideSeg(aA, aSeg, aClearance, o) ==
    SegmentCollideAt(aA, aSeg, (aA.w + 1) \div 2 + aClearance,
                     SegSquaredDistance(aA.seg, aSeg), o)

\* SHAPE_LINE_CHAIN_BASE::Collide( SEG )
ChainCollideSeg(aA, aSeg, aClearance, o) ==
    IF aA.closed /\ PointInside(aA, aSeg[1])
    THEN Result(TRUE, SetActual(SetLocation(o, aSeg[1]), 0))
    ELSE OutlineCollideSeg(aA, aSeg, aClearance, o)

(***************************************************************************)
(* The pair routines of shape_collisions.cpp.                              *)
(***************************************************************************)
\* Mutant: the test against min_dist_sq made inclusive.
CollideCircleCircle_Inclusive(aA, aB, aClearance, o) ==
    LET min_dist    == aClearance + aA.r + aB.r
        min_dist_sq == min_dist * min_dist
        delta       == VSub(aB.c, aA.c)
        dist_sq     == SquaredEuclideanNorm(delta)
    IN  IF dist_sq <= min_dist_sq
        THEN Result(TRUE,
                SetMTV(SetLocation(SetActual(o, Max2(0, ISqrt(dist_sq) - aA.r - aB.r)),
                                   <<TDiv(aA.c[1] + aB.c[1], 2), TDiv(aA.c[2] + aB.c[2], 2)>>),
                       Resize(delta, min_dist + 3 - CeilSqrt(dist_sq))))
        ELSE Miss(o)

\* Mutant: the MTV without the overshoot of 3.
CollideCircleCircle_NoOvershoot(aA, aB, aClearance, o) ==
    LET min_dist    == aClearance + aA.r + aB.r
        min_dist_sq == min_dist * min_dist
        delta       == VSub(aB.c, aA.c)
        dist_sq     == SquaredEuclideanNorm(delta)
    IN  IF dist_sq < min_dist_sq
        THEN Result(TRUE,
                SetMTV(SetLocation(SetActual(o, Max2(0, ISqrt(dist_sq) - aA.r - aB.r)),
                                   <<TDiv(aA.c[1] + aB.c[1], 2), TDiv(aA.c[2] + aB.c[2], 2)>>),
                       Resize(delta, min_dist - CeilSqrt(dist_sq))))
        ELSE Miss(o)

\* Collide( SHAPE_CIRCLE, SHAPE_CIRCLE )
CollideCircleCircle(aA, aB, aClearance, o) ==
    LET min_dist    == aClearance + aA.r + aB.r
        min_dist_sq == min_dist * min_dist
        delta       == VSub(aB.c, aA.c)
        dist_sq     == SquaredEuclideanNorm(delta)
    IN  IF dist_sq < min_dist_sq
        THEN Result(TRUE,
                SetMTV(SetLocation(SetActual(o, Max2(0, ISqrt(dist_sq) - aA.r - aB.r)),
                                   <<TDiv(aA.c[1] + aB.c[1], 2), TDiv(aA.c[2] + aB.c[2], 2)>>),
                       Resize(delta, min_dist + 3 - CeilSqrt(dist_sq))))
        ELSE Miss(o)

\* The four sides of the rectangle, vts[i] to vts[i + 1], i = 0..3.
RectSide(aA, i) ==
    LET x == aA.p0[1]
        y == aA.p0[2]
        w == aA.size[1]
        h == aA.size[2]
        vts == << <<x, y>>, <<x, y + h>>, <<x + w, y + h>>, <<x + w, y>>, <<x, y>> >>
    IN  <<vts[i + 1], vts[i + 2]>>

\* The side loop of Collide( SHAPE_RECT, SHAPE_CIRCLE ): the nearest point found
\* and its squared distance when the loop ends or breaks (-1: ECOORD_MAX).
RECURSIVE RectCircleSides(_, _, _, _, _, _)
RECURSIVE RectCircleSide(_, _, _, _, _, _, _)
RECURSIVE RectCircleSideAt(_, _, _, _, _, _, _, _)
RectCircleSides(aA, c, o, i, nearest, nsd) ==
    IF i > 3 THEN [nearest |-> nearest, dist_sq |-> nsd]
    ELSE RectCircleSide(aA, c, o, i, nearest, nsd, SegNearestPoint(RectSide(aA, i), c))

RectCircleSide(aA, c, o, i, nearest, nsd, pn) ==
    RectCircleSideAt(aA, c, o, i, nearest, nsd, pn, SquaredEuclideanNorm(VSub(pn, c)))

RectCircleSideAt(aA, c, o, i, nearest, nsd, pn, side_dist_sq) ==
    IF nsd = -1 \/ side_dist_sq < nsd
    THEN IF (side_dist_sq = 0 \/ ~o.wA) /\ ~o.wM
         THEN [nearest |-> pn, dist_sq |-> side_dist_sq]
         ELSE RectCircleSides(aA, c, o, i + 1, pn, side_dist_sq)
    ELSE RectCircleSides(aA, c, o, i + 1, nearest, nsd)

\* The part of Collide( SHAPE_RECT, SHAPE_CIRCLE ) after the side loop.
RectCircleResult(c, r, min_dist, inside, nearest, nsd, o) ==
    IF inside \/ nsd < min_dist * min_dist
    THEN Result(TRUE,
            SetMTV(SetActual(SetLocation(o, nearest), Max2(0, ISqrt(nsd) - r)),
                   IF inside
                   THEN VNeg(Resize(VSub(c, nearest), min_dist + 1 + ISqrt(nsd) + 1))
                   ELSE Resize(VSub(c, nearest), Abs(min_dist + 1 - CeilSqrt(nsd)) + 1)))
    ELSE Miss(o)

RectCircleFound(aB, aClearance, inside, found, o) ==
    RectCircleResult(aB.c, aB.r, aClearance + aB.r, inside, found.nearest, found.dist_sq, o)

\* Collide( SHAPE_RECT, SHAPE_CIRCLE )
CollideRectCircle(aA, aB, aClearance, o) ==
    IF RectContains(aA, aB.c) /\ ~o.wA /\ ~o.wL /\ ~o.wM THEN Result(TRUE, o)
    ELSE RectCircleFound(aB, aClearance, RectContains(aA, aB.c),
                         RectCircleSides(aA, aB.c, o, 0, <<0, 0>>, -1), o)

\* pushoutForce( SHAPE_CIRCLE, SEG, clearance ), the circle given by centre and radius.
RECURSIVE PushoutCorr(_, _, _, _, _, _)
RECURSIVE PushoutTry(_, _, _, _, _, _, _)
PushoutCorr(c, nearest, aB, min_dist, dist, corr) ==
    PushoutTry(c, nearest, aB, min_dist, dist, corr,
               Resize(VSub(c, nearest), min_dist - dist + corr))

PushoutTry(c, nearest, aB, min_dist, dist, corr, f) ==
    IF SegDistancePt(aB, VAdd(c, f)) >= min_dist \/ corr = 4 THEN f
    ELSE PushoutCorr(c, nearest, aB, min_dist, dist, corr + 1)

PushoutFrom(c, nearest, aB, min_dist, dist) ==
    IF dist < min_dist THEN PushoutCorr(c, nearest, aB, min_dist, dist, 0)
    ELSE <<0, 0>>

PushoutNear(c, nearest, aB, min_dist) ==
    PushoutFrom(c, nearest, aB, min_dist, EuclideanNorm(VSub(nearest, c)))

pushoutForce(c, r, aB, aClearance) ==
    PushoutNear(c, SegNearestPoint(aB, c), aB, aClearance + r)

\* The segment loop shared by the three line-chain routines: Test[s] is the
\* per-segment test with the slots SegSlots( o ).  Yields closest_dist and nearest.
RECURSIVE ClosestSegment(_, _, _, _, _, _)
ClosestSegment(Test, n, o, s, closest_dist, nearest) ==
    IF s >= n THEN [closest_dist |-> closest_dist, nearest |-> nearest]
    ELSE LET r == Test[s]
         IN  IF r.hit /\ r.actual < closest_dist
             THEN IF r.actual = 0 \/ ~o.wA
                  THEN [closest_dist |-> r.actual, nearest |-> r.loc]
                  ELSE ClosestSegment(Test, n, o, s + 1, r.actual, r.loc)
             ELSE ClosestSegment(Test, n, o, s + 1, closest_dist, nearest)

\* The end of the three line-chain routines: the test of closest_dist and the
\* writes of *aLocation and *aActual.
ChainResult(found, aClearance, o) ==
    IF found.closest_dist < aClearance
    THEN Result(TRUE, SetActual(SetLocation(o, found.nearest), found.closest_dist))
    ELSE Miss(o)

\* The pushout loop of Collide( SHAPE_CIRCLE, SHAPE_LINE_CHAIN_BASE ).
RECURSIVE PushoutTotal(_, _, _, _, _, _)
RECURSIVE PushoutNext(_, _, _, _, _, _, _)
PushoutTotal(centre, r, aB, aClearance, s, f_total) ==
    IF s >= GetSegmentCount(aB) THEN f_total
    ELSE PushoutNext(centre, r, aB, aClearance, s, f_total,
                     pushoutForce(centre, r, GetSegment(aB, s), aClearance))

PushoutNext(centre, r, aB, aClearance, s, f_total, f) ==
    PushoutTotal(VAdd(centre, f), r, aB, aClearance, s + 1, VAdd(f_total, f))

CircleChainMTV(rv, aA, aB, aClearance, o) ==
    IF rv.hit /\ o.wM
    THEN Result(TRUE, SetMTV(After(o, rv),
                             PushoutTotal(aA.c, aA.r, aB, aClearance, 0, <<0, 0>>)))
    ELSE rv

\* Collide( SHAPE_CIRCLE, SHAPE_LINE_CHAIN_BASE )
CollideCircleChain(aA, aB, aClearance, o) ==
    CircleChainMTV(
        ChainResult(
            ClosestSegment([s \in 0..(GetSegmentCount(aB) - 1) |->
                               CircleCollideSeg(aA, GetSegment(aB, s), aClearance, SegSlots(o))],
                           GetSegmentCount(aB), o, 0, INT_MAX, <<0, 0>>),
            aClearance, o),
        aA, aB, aClearance, o)

CircleSegmentMTV(rv, aA, aSeg, aClearance, o) ==
    IF rv.hit /\ o.wM
    THEN Result(TRUE, SetMTV(After(o, rv),
                    VNeg(pushoutForce(aA.c, aA.r, aSeg.seg, aClearance + aSeg.w \div 2))))
    ELSE rv

\* Collide( SHAPE_CIRCLE, SHAPE_SEGMENT )
CollideCircleSegment(aA, aSeg, aClearance, o) ==
    CircleSegmentMTV(CircleCollideSeg(aA, aSeg.seg, aClearance + aSeg.w \div 2, o),
                     aA, aSeg, aClearance, o)

\* Collide( SHAPE_LINE_CHAIN_BASE, SHAPE_LINE_CHAIN_BASE )
CollideChainChain(aA, aB, aClearance, o) ==
    ChainResult(
        ClosestSegment([s \in 0..(GetSegmentCount(aB) - 1) |->
                           ChainCollideSeg(aA, GetSegment(aB, s), aClearance, SegSlots(o))],
                       GetSegmentCount(aB), o, 0, INT_MAX, <<0, 0>>),
        aClearance, o)

\* SHAPE_RECT::Centre
RectCentre(aA) == <<aA.p0[1] + TDiv(aA.size[1], 2), aA.p0[2] + TDiv(aA.size[2], 2)>>

\* Collide( SHAPE_RECT, SHAPE_LINE_CHAIN_BASE )
CollideRectChain(aA, aB, aClearance, o) ==
    IF aB.closed /\ PointInside(aB, RectCentre(aA))
    THEN Result(TRUE, SetActual(SetLocation(o, RectCentre(aA)), 0))
    ELSE ChainResult(
            ClosestSegment([s \in 0..(GetSegmentCount(aB) - 1) |->
                               RectCollideSeg(aA, GetSegment(aB, s), aClearance, SegSlots(o))],
                           GetSegmentCount(aB), o, 0, INT_MAX, <<0, 0>>),
            aClearance, o)

\* The three routines whose second operand is a SHAPE_SEGMENT and that rewrite
\* *aActual: r is the result of aA.Collide( aSeg.GetSeg(), aClearance + width / 2 ).
SubtractHalfWidth(o, r, aSeg) ==
    IF r.hit THEN Result(TRUE, SetActual(After(o, r), Max2(0, r.actual - aSeg.w \div 2)))
    ELSE Miss(o)

\* Collide( SHAPE_RECT, SHAPE_SEGMENT )
CollideRectSegment(aA, aSeg, aClearance, o) ==
    SubtractHalfWidth(o, RectCollideSeg(aA, aSeg.seg, aClearance + aSeg.w \div 2, o), aSeg)

\* Collide( SHAPE_SEGMENT, SHAPE_SEGMENT )
CollideSegmentSegment(aA, aB, aClearance, o) ==
    SubtractHalfWidth(o, SegmentCollideSeg(aA, aB.seg, aClearance + aB.w \div 2, o), aB)

\* Collide( SHAPE_LINE_CHAIN_BASE, SHAPE_SEGMENT )
CollideChainSegment(aA, aB, aClearance, o) ==
    SubtractHalfWidth(o, ChainCollideSeg(aA, aB.seg, aClearance + aB.w \div 2, o), aB)

\* if( rv && aMTV ) *aMTV = - *aMTV, of CollCaseReversed and of the arc-circle
\* routine; rv is the result of the inner call.
NegateMTV(rv, o) == IF rv.hit /\ o.wM THEN [rv EXCEPT !.mtv = VNeg(rv.mtv)] ELSE rv

\* Collide( SHAPE_RECT, SHAPE_RECT )
CollideRectRect(aA, aB, aClearance, o) ==
    CollideChainChain(Outline(aA), Outline(aB), aClearance, o)

\* Collide( SHAPE_ARC, SHAPE_RECT )
CollideArcRect(aA, aB, aClearance, o) ==
    CollideChainChain(ConvertToPolyline(aA), Outline(aB), aClearance, o)

\* Collide( SHAPE_ARC, SHAPE_CIRCLE )
CollideArcCircle(aA, aB, aClearance, o) ==
    NegateMTV(CollideCircleChain(aB, ConvertToPolyline(aA), aClearance, o), o)

\* Collide( SHAPE_ARC, SHAPE_LINE_CHAIN ) and Collide( SHAPE_ARC, SHAPE_LINE_CHAIN_BASE )
CollideArcChain(aA, aB, aClearance, o) ==
    CollideChainChain(ConvertToPolyline(aA), aB, aClearance, o)

\* Collide( SHAPE_ARC, SHAPE_SEGMENT )
CollideArcSegment(aA, aB, aClearance, o) ==
    CollideChainSegment(ConvertToPolyline(aA), aB, aClearance, o)

\* Collide( SHAPE_ARC, SHAPE_ARC )
CollideArcArc(aA, aB, aClearance, o) ==
    CollideChainChain(ConvertToPolyline(aA), ConvertToPolyline(aB), aClearance, o)

(***************************************************************************)
(* The dispatcher.                                                         *)
(***************************************************************************)
\* An entry of the dispatch table: the routine, whether the operands are handed
\* to it as ( aB, aA ), and whether the adapter is CollCaseReversed.
CollCase(fn) == [fn |-> fn, swapped |-> FALSE, reversed |-> FALSE]

CollCaseSwapped(fn) == [fn |-> fn, swapped |-> TRUE, reversed |-> FALSE]

CollCaseReversed(fn) == [fn |-> fn, swapped |-> TRUE, reversed |-> TRUE]

Unsupported == [fn |-> "none", swapped |-> FALSE, reversed |-> FALSE]

IsChainBase(t) == t \in {"SH_SIMPLE", "SH_POLY_SET_TRIANGLE"}

\* The two nested switches of collideSingleShapes.
DispatchEntry(ta, tb) ==
    CASE ta = "SH_RECT" ->
           (CASE tb = "SH_RECT"       -> CollCase("RectRect")
              [] tb = "SH_CIRCLE"     -> CollCase("RectCircle")
              [] tb = "SH_LINE_CHAIN" -> CollCase("RectChain")
              [] tb = "SH_SEGMENT"    -> CollCase("RectSegment")
              [] IsChainBase(tb)      -> CollCase("RectChain")
              [] tb = "SH_ARC"        -> CollCaseReversed("ArcRect")
              [] OTHER                -> Unsupported)
      [] ta = "SH_CIRCLE" ->
           (CASE tb = "SH_RECT"       -> CollCaseReversed("RectCircle")
              [] tb = "SH_CIRCLE"     -> CollCase("CircleCircle")
              [] tb = "SH_LINE_CHAIN" -> CollCase("CircleChain")
              [] tb = "SH_SEGMENT"    -> CollCase("CircleSegment")
              [] IsChainBase(tb)      -> CollCase("CircleChain")
              [] tb = "SH_ARC"        -> CollCaseReversed("ArcCircle")
              [] OTHER                -> Unsupported)
      [] ta = "SH_LINE_CHAIN" ->
           (CASE tb = "SH_RECT"       -> CollCaseSwapped("RectChain")
              [] tb = "SH_CIRCLE"     -> CollCaseSwapped("CircleChain")
              [] tb = "SH_LINE_CHAIN" -> CollCase("ChainChain")
              [] tb = "SH_SEGMENT"    -> CollCase("ChainSegment")
              [] IsChainBase(tb)      -> CollCase("ChainChain")
              [] tb = "SH_ARC"        -> CollCaseReversed("ArcChain")
              [] OTHER                -> Unsupported)
      [] ta = "SH_SEGMENT" ->
           (CASE tb = "SH_RECT"       -> CollCaseSwapped("RectSegment")
              [] tb = "SH_CIRCLE"     -> CollCaseReversed("CircleSegment")
              [] tb = "SH_LINE_CHAIN" -> CollCaseSwapped("ChainSegment")
              [] tb = "SH_SEGMENT"    -> CollCase("SegmentSegment")
              [] IsChainBase(tb)      -> CollCaseSwapped("ChainSegment")
              [] tb = "SH_ARC"        -> CollCaseReversed("ArcSegment")
              [] OTHER                -> Unsupported)
      [] IsChainBase(ta) ->
           (CASE tb = "SH_RECT"       -> CollCaseSwapped("RectChain")
              [] tb = "SH_CIRCLE"     -> CollCaseSwapped("CircleChain")
              [] tb = "SH_LINE_CHAIN" -> CollCaseSwapped("ChainChain")
              [] tb = "SH_SEGMENT"    -> CollCase("ChainSegment")
              [] IsChainBase(tb)      -> CollCase("ChainChain")
              [] tb = "SH_ARC"        -> CollCaseReversed("ArcChain")
              [] OTHER                -> Unsupported)
      [] ta = "SH_ARC" ->
           (CASE tb = "SH_RECT"       -> CollCase("ArcRect")
              [] tb = "SH_CIRCLE"     -> CollCase("ArcCircle")
              [] tb = "SH_LINE_CHAIN" -> CollCase("ArcChain")
              [] tb = "SH_SEGMENT"    -> CollCase("ArcSegment")
              [] IsChainBase(tb)      -> CollCase("ArcChain")
              [] tb = "SH_ARC"        -> CollCase("ArcArc")
              [] OTHER                -> Unsupported)
      [] OTHER -> Unsupported

\* The overload of Collide the template arguments of an entry select.
CollideOverload(fn, aA, aB, aClearance, o) ==
    CASE fn = "RectRect"       -> CollideRectRect(aA, aB, aClearance, o)
      [] fn = "RectCircle"     -> CollideRectCircle(aA, aB, aClearance, o)
      [] fn = "RectChain"      -> CollideRectChain(aA, aB, aClearance, o)
      [] fn = "RectSegment"    -> CollideRectSegment(aA, aB, aClearance, o)
      [] fn = "CircleCircle"   -> CollideCircleCircle(aA, aB, aClearance, o)
      [] fn = "CircleChain"    -> CollideCircleChain(aA, aB, aClearance, o)
      [] fn = "CircleSegment"  -> CollideCircleSegment(aA, aB, aClearance, o)
      [] fn = "ChainChain"     -> CollideChainChain(aA, aB, aClearance, o)
      [] fn = "ChainSegment"   -> CollideChainSegment(aA, aB, aClearance, o)
      [] fn = "SegmentSegment" -> CollideSegmentSegment(aA, aB, aClearance, o)
      [] fn = "ArcRect"        -> CollideArcRect(aA, aB, aClearance, o)
      [] fn = "ArcCircle"      -> CollideArcCircle(aA, aB, aClearance, o)
      [] fn = "ArcChain"       -> CollideArcChain(aA, aB, aClearance, o)
      [] fn = "ArcSegment"     -> CollideArcSegment(aA, aB, aClearance, o)
      [] fn = "ArcArc"         -> CollideArcArc(aA, aB, aClearance, o)

\* CollCase / CollCaseReversed applied to the operands of collideSingleShapes.
AdaptResult(e, rv, o) == IF e.reversed THEN NegateMTV(rv, o) ELSE rv

ApplyEntry(e, aA, aB, aClearance, o) ==
    IF e.fn = "none" THEN Miss(o)
    ELSE AdaptResult(e, CollideOverload(e.fn, IF e.swapped THEN aB ELSE aA,
                                              IF e.swapped THEN aA ELSE aB, aClearance, o), o)

\* collideSingleShapes.  An unsupported pair (the assertion) yields false.
collideSingleShapes(aA, aB, aClearance, o) ==
    ApplyEntry(DispatchEntry(aA.type, aB.type), aA, aB, aClearance, o)

\* The slots collideCompoundSubshapes passes to collideSingleShapes.
SubSlots(o) == Slots(o.wA \/ o.wL, o.wL, o.wM, 0, <<0, 0>>, <<0, 0>>)

\* Mutant: the loops break after the first pair, colliding or not.
canExit_Always(o, st) == TRUE

\* Mutant: the loops break at the first hit although a smaller actual may follow.
canExit_FirstHit(o, st) == st.colliding /\ ~o.wM

canExit(o, st) ==
    /\ st.colliding
    /\ ~(o.wA /\ st.currentActual > 0)
    /\ ~o.wM

\* Mutant: currentMTV follows the last colliding pair instead of the largest MTV.
SubshapesResult_LastMTV(r, o, st) ==
    IF r.hit
    THEN [ret             |-> TRUE,
          colliding       |-> st.colliding,
          currentActual   |-> IF r.actual < st.currentActual THEN r.actual
                              ELSE st.currentActual,
          currentLocation |-> IF r.actual < st.currentActual THEN r.loc
                              ELSE st.currentLocation,
          currentMTV      |-> IF o.wM THEN r.mtv ELSE st.currentMTV]
    ELSE [st EXCEPT !.ret = FALSE]

\* collideCompoundSubshapes for one pair, r being what collideSingleShapes
\* returned: ret is what the lambda returns, the other fields are the captured
\* running values after the call.
SubshapesResult(r, o, st) ==
    IF r.hit
    THEN [ret             |-> TRUE,
          colliding       |-> st.colliding,
          currentActual   |-> IF r.actual < st.currentActual THEN r.actual
                              ELSE st.currentActual,
          currentLocation |-> IF r.actual < st.currentActual THEN r.loc
                              ELSE st.currentLocation,
          currentMTV      |-> IF o.wM /\ SquaredEuclideanNorm(r.mtv)
                                           > SquaredEuclideanNorm(st.currentMTV)
                              THEN r.mtv ELSE st.currentMTV]
    ELSE [st EXCEPT !.ret = FALSE]

collideCompoundSubshapes(elemA, elemB, clearance, o, st) ==
    SubshapesResult(collideSingleShapes(elemA, elemB, clearance, SubSlots(o)), o, st)

\* colliding = true when the call returned true.
SetColliding(s2) == IF s2.ret THEN [s2 EXCEPT !.colliding = TRUE] ELSE s2

\* The loops over the sub-shapes.  as and bs are the sub-shape lists, a shape
\* that is not a compound being the one element of its list; nested says that
\* both operands are compounds.  The inner loop breaks when a pair has collided
\* and canExit() holds; in the nested case the outer loop breaks when canExit()
\* holds after the inner loop.
RECURSIVE LoopB(_, _, _, _, _, _)
RECURSIVE LoopBNext(_, _, _, _, _, _)
LoopB(elemA, bs, j, clearance, o, st) ==
    IF j > Len(bs) THEN st
    ELSE LoopBNext(elemA, bs, j, clearance, o,
                   SetColliding(collideCompoundSubshapes(elemA, bs[j], clearance, o, st)))

LoopBNext(elemA, bs, j, clearance, o, s2) ==
    IF s2.ret /\ canExit(o, s2) THEN s2
    ELSE LoopB(elemA, bs, j + 1, clearance, o, s2)

RECURSIVE LoopA(_, _, _, _, _, _, _)
RECURSIVE LoopANext(_, _, _, _, _, _, _)
LoopA(as, i, bs, nested, clearance, o, st) ==
    IF i > Len(as) THEN st
    ELSE LoopANext(as, i, bs, nested, clearance, o, LoopB(as[i], bs, 1, clearance, o, st))

LoopANext(as, i, bs, nested, clearance, o, s2) ==
    IF (nested \/ s2.ret) /\ canExit(o, s2) THEN s2
    ELSE LoopA(as, i + 1, bs, nested, clearance, o, s2)

SubShapeList(sh) == IF sh.type = "SH_COMPOUND" THEN sh.shapes ELSE <<sh>>

\* The end of collideShapes: the writes of the slots when colliding.
CompoundResult(st, o) ==
    IF st.colliding
    THEN Result(TRUE, SetMTV(SetActual(SetLocation(o, st.currentLocation),
                                       st.currentActual), st.currentMTV))
    ELSE Miss(o)

\* collideShapes
collideShapes(aA, aB, aClearance, o) ==
    IF aA.type # "SH_COMPOUND" /\ aB.type # "SH_COMPOUND"
    THEN collideSingleShapes(aA, aB, aClearance, o)
    ELSE CompoundResult(
            LoopA(SubShapeList(aA), 1, SubShapeList(aB),
                  aA.type = "SH_COMPOUND" /\ aB.type = "SH_COMPOUND", aClearance, o,
                  [ret |-> FALSE, colliding |-> FALSE, currentActual |-> INT_MAX,
                   currentLocation |-> <<0, 0>>, currentMTV |-> <<0, 0>>]),
            o)

\* The slots of the two SHAPE::Collide entry points, with the values the caller
\* left in them.
CallerSlots(wA, wL, wM) == Slots(wA, wL, wM, -1, <<-99, -99>>, <<-99, -99>>)

EntrySlots ==
    {CallerSlots(FALSE, FALSE, m) : m \in BOOLEAN}
        \cup {CallerSlots(a, l, FALSE) : a \in BOOLEAN, l \in BOOLEAN}

(***************************************************************************)
(* POLYGON_GEOM_MANAGER                                                    *)
(***************************************************************************)
VARIABLES
    lockedPoints,           \* m_lockedPoints: sequence of points
    leaderPts,              \* m_leaderPts: sequence of points
    leaderMode,             \* m_leaderMode: "DIRECT" or "DEG45"
    intersectionsAllowed,   \* m_intersectionsAllowed
    lastCall,               \* the last operation: name, argument, result, client callbacks fired
    lastCursor,             \* history: the argument of the last SetCursorPosition, NoPt if none
    strict                  \* history: every operation so far ran with intersections disallowed

mgrVars ==
    <<lockedPoints, leaderPts, leaderMode, intersectionsAllowed, lastCall, lastCursor, strict>>

Call(op, arg, ret, nGeom, nComplete) ==
    [op |-> op, arg |-> arg, ret |-> ret, nGeom |-> nGeom, nComplete |-> nComplete]

IsPolygonInProgress == Len(lockedPoints) > 0

\* Mutant: the chain is not closed before the test.
IsSelfIntersectingPts_Open(locked, leader, aIncludeLeaderPts) == SelfIntersecting(locked, FALSE)

IsSelfIntersectingPts(locked, leader, aIncludeLeaderPts) ==
    LET RECURSIVE AddLeader(_, _)
        AddLeader(pts, i) ==
            IF i > Len(leader) THEN pts
            ELSE AddLeader(IF leader[i] # pts[1] THEN ChainAppend(pts, leader[i]) ELSE pts,
                           i + 1)
        pts == IF aIncludeLeaderPts THEN AddLeader(locked, 1) ELSE locked
    IN  SelfIntersecting(pts, TRUE)

IsSelfIntersecting(aIncludeLeaderPts) ==
    IsSelfIntersectingPts(lockedPoints, leaderPts, aIncludeLeaderPts)

\* Mutant: the test without the check that a point is locked (CPoint( 0 ) of an
\* empty chain read as the origin).
NewPointClosesOutline_Unguarded(aPt) ==
    aPt = (IF Len(lockedPoints) > 0 THEN lockedPoints[1] ELSE <<0, 0>>)

NewPointClosesOutline(aPt) == Len(lockedPoints) > 0 /\ lockedPoints[1] = aPt

\* The 45-degree search of updateLeaderPoints: the intersection of the snapped
\* leader with the first locked edge rotated through the eight directions that
\* lies closest to the cursor; NoPt when there is none.
\* test_seg.B = ( test_seg.B - test_seg.A ).Rotate( M_PI_4 ) + test_seg.A
Rotated(test_seg) ==
    <<test_seg[1], VAdd(Rotate45(VSub(test_seg[2], test_seg[1])), test_seg[1])>>

\* i = 0 is the first locked edge itself, i = 1..7 are its rotations; dist = -1
\* stands for "no point yet" (the maximum int).
RECURSIVE BendSearch(_, _, _, _, _, _)
RECURSIVE BendCandidate(_, _, _, _, _, _, _)
BendSearch(first, aEndPoint, i, test_seg, pt, dist) ==
    IF i > 7 THEN pt
    ELSE BendCandidate(first, aEndPoint, i, test_seg, pt, dist,
                       IntersectLines(first, test_seg))

BendCloser(aEndPoint, dist, pt2) ==
    pt2 # NoPt /\ (dist = -1 \/ EuclideanNorm(VSub(aEndPoint, pt2)) < dist)

BendCandidate(first, aEndPoint, i, test_seg, pt, dist, pt2) ==
    BendSearch(first, aEndPoint, i + 1, Rotated(test_seg),
               IF BendCloser(aEndPoint, dist, pt2) THEN pt2 ELSE pt,
               IF BendCloser(aEndPoint, dist, pt2)
               THEN EuclideanNorm(VSub(aEndPoint, pt2)) ELSE dist)

BendPoint(locked, lastPt, newEnd, aEndPoint) ==
    BendSearch(<<lastPt, newEnd>>, aEndPoint, 0, CSegment(locked, FALSE, 0), NoPt, -1)

\* The leader updateLeaderPoints computes (m_lockedPoints is not empty).
LeaderFor(locked, aEndPoint, mode) ==
    LET lastPt == locked[Len(locked)]
    IN  IF mode = "DEG45"
        THEN LET newEnd == VAdd(lastPt, GetVectorSnapped45(VSub(aEndPoint, lastPt)))
                 pt     == IF SegmentCount(locked, FALSE) > 0
                           THEN BendPoint(locked, lastPt, newEnd, aEndPoint)
                           ELSE NoPt
             IN  IF pt = NoPt THEN <<lastPt, newEnd>>
                 ELSE IF SegCollinear(<<lastPt, newEnd>>, <<newEnd, pt>>)
                      THEN <<lastPt, pt>>
                      ELSE ChainAppend(<<lastPt, newEnd>>, pt)
        ELSE <<lastPt, aEndPoint>>

\* Mutant: the leader point is taken only from a leader of more than one segment.
PointToLock_BentOnly(leader, aPt) == IF Len(leader) > 2 THEN leader[2] ELSE aPt

\* The point AddPoint appends.
PointToLock(leader, aPt) == IF Len(leader) > 1 THEN leader[2] ELSE aPt

AddPoint(aPt, clientOk) ==
    /\ PointToLock(leaderPts, aPt) \in Grid
    /\ Len(ChainAppend(lockedPoints, PointToLock(leaderPts, aPt))) <= MaxLocked
    /\ strict' = (strict /\ ~intersectionsAllowed)
    /\ UNCHANGED <<leaderPts, leaderMode, intersectionsAllowed, lastCursor>>
    /\ IF ~IsPolygonInProgress /\ ~clientOk
       THEN /\ lockedPoints' = lockedPoints
            /\ lastCall' = Call("AddPoint", aPt, FALSE, 0, 0)
       ELSE LET appended == ChainAppend(lockedPoints, PointToLock(leaderPts, aPt))
            IN  IF ~intersectionsAllowed /\ IsSelfIntersectingPts(appended, leaderPts, FALSE)
                THEN /\ lockedPoints' = ChainRemoveLast(appended)
                     /\ lastCall' = Call("AddPoint", aPt, FALSE, 0, 0)
                ELSE /\ lockedPoints' = appended
                     /\ lastCall' = Call("AddPoint", aPt, TRUE, 1, 0)

\* Mutant: SetFinished drops the leader.
SetFinished_ClearsLeader ==
    /\ lastCall' = Call("SetFinished", NoPt, TRUE, 0, 1)
    /\ strict' = (strict /\ ~intersectionsAllowed)
    /\ leaderPts' = <<>>
    /\ UNCHANGED <<lockedPoints, leaderMode, intersectionsAllowed, lastCursor>>

SetFinished ==
    /\ lastCall' = Call("SetFinished", NoPt, TRUE, 0, 1)
    /\ strict' = (strict /\ ~intersectionsAllowed)
    /\ UNCHANGED <<lockedPoints, leaderPts, leaderMode, intersectionsAllowed, lastCursor>>

SetLeaderMode(aMode) ==
    /\ leaderMode' = aMode
    /\ lastCall' = Call("SetLeaderMode", NoPt, TRUE, 0, 0)
    /\ UNCHANGED <<lockedPoints, leaderPts, intersectionsAllowed, lastCursor, strict>>

AllowIntersections(aEnabled) ==
    /\ intersectionsAllowed' = aEnabled
    /\ lastCall' = Call("AllowIntersections", NoPt, TRUE, 0, 0)
    /\ UNCHANGED <<lockedPoints, leaderPts, leaderMode, lastCursor, strict>>

\* Mutant: updateLeaderPoints recomputes the leader and tells the client nothing.
SetCursorPosition_NoNotify(aPos) ==
    /\ strict' = (strict /\ ~intersectionsAllowed)
    /\ lastCursor' = aPos
    /\ UNCHANGED <<lockedPoints, leaderMode, intersectionsAllowed>>
    /\ lastCall' = Call("SetCursorPosition", aPos, Len(lockedPoints) > 0, 0, 0)
    /\ leaderPts' = IF Len(lockedPoints) > 0 THEN LeaderFor(lockedPoints, aPos, leaderMode)
                    ELSE leaderPts

\* Mutant: without the check of updateLeaderPoints, the last point of the empty
\* locked chain read as the origin.
SetCursorPosition_Unchecked(aPos) ==
    /\ strict' = (strict /\ ~intersectionsAllowed)
    /\ lastCursor' = aPos
    /\ UNCHANGED <<lockedPoints, leaderMode, intersectionsAllowed>>
    /\ leaderPts' = IF Len(lockedPoints) > 0 THEN LeaderFor(lockedPoints, aPos, leaderMode)
                    ELSE <<<<0, 0>>, aPos>>
    /\ lastCall' = Call("SetCursorPosition", aPos, Len(lockedPoints) > 0, 1, 0)

\* Mutant: a leader of one segment is extended to the cursor instead of recomputed.
SetCursorPosition_ExtendsLeader(aPos) ==
    /\ strict' = (strict /\ ~intersectionsAllowed)
    /\ lastCursor' = aPos
    /\ UNCHANGED <<lockedPoints, leaderMode, intersectionsAllowed>>
    /\ IF Len(lockedPoints) > 0
       THEN /\ leaderPts' = IF Len(leaderPts) = 2 THEN Append(leaderPts, aPos)
                            ELSE LeaderFor(lockedPoints, aPos, leaderMode)
            /\ lastCall' = Call("SetCursorPosition", aPos, TRUE, 1, 0)
       ELSE /\ leaderPts' = leaderPts
            /\ lastCall' = Call("SetCursorPosition", aPos, FALSE, 0, 0)

SetCursorPosition(aPos) ==
    /\ strict' = (strict /\ ~intersectionsAllowed)
    /\ lastCursor' = aPos
    /\ UNCHANGED <<lockedPoints, leaderMode, intersectionsAllowed>>
    /\ IF Len(lockedPoints) > 0
       THEN /\ leaderPts' = LeaderFor(lockedPoints, aPos, leaderMode)
            /\ lastCall' = Call("SetCursorPosition", aPos, TRUE, 1, 0)
       ELSE /\ leaderPts' = leaderPts
            /\ lastCall' = Call("SetCursorPosition", aPos, FALSE, 0, 0)

\* m_leaderPts.CLastPoint() of an empty leader reads outside the vector: any value.
DeleteLastCorner ==
    LET remaining == IF Len(lockedPoints) > 0 THEN ChainRemoveLast(lockedPoints)
                     ELSE lockedPoints
    IN  /\ lockedPoints' = remaining
        /\ strict' = (strict /\ ~intersectionsAllowed)
        /\ UNCHANGED <<leaderMode, intersectionsAllowed, lastCursor>>
        /\ IF Len(remaining) > 0
           THEN /\ \E e \in (IF Len(leaderPts) > 0 THEN {leaderPts[Len(leaderPts)]} ELSE Grid) :
                      leaderPts' = LeaderFor(remaining, e, leaderMode)
                /\ lastCall' = Call("DeleteLastCorner", NoPt, TRUE, 2, 0)
           ELSE /\ leaderPts' = leaderPts
                /\ lastCall' = Call("DeleteLastCorner", NoPt, TRUE, 1, 0)

\* Mutant: Reset forgets the leader.
Reset_KeepsLeader ==
    /\ lockedPoints' = <<>>
    /\ leaderPts' = leaderPts
    /\ lastCall' = Call("Reset", NoPt, TRUE, 1, 0)
    /\ strict' = (strict /\ ~intersectionsAllowed)
    /\ UNCHANGED <<leaderMode, intersectionsAllowed, lastCursor>>

Reset ==
    /\ lockedPoints' = <<>>
    /\ leaderPts' = <<>>
    /\ lastCall' = Call("Reset", NoPt, TRUE, 1, 0)
    /\ strict' = (strict /\ ~intersectionsAllowed)
    /\ UNCHANGED <<leaderMode, intersectionsAllowed, lastCursor>>

\* A call of the query NewPointClosesOutline by the client.
CallNewPointClosesOutline(aPt) ==
    /\ lastCall' = Call("NewPointClosesOutline", aPt, NewPointClosesOutline(aPt), 0, 0)
    /\ UNCHANGED <<lockedPoints, leaderPts, leaderMode, intersectionsAllowed, lastCursor, strict>>

MgrInit ==
    /\ lockedPoints = <<>>
    /\ leaderPts = <<>>
    /\ leaderMode = "DIRECT"
    /\ intersectionsAllowed = TRUE
    /\ lastCall = Call("POLYGON_GEOM_MANAGER", NoPt, TRUE, 0, 0)
    /\ lastCursor = NoPt
    /\ strict = TRUE

MgrNext ==
    \/ \E p \in Grid, ok \in BOOLEAN : AddPoint(p, ok)
    \/ SetFinished
    \/ \E m \in {"DIRECT", "DEG45"} : SetLeaderMode(m)
    \/ \E b \in BOOLEAN : AllowIntersections(b)
    \/ \E p \in Grid : SetCursorPosition(p)
    \/ DeleteLastCorner
    \/ Reset
    \/ \E p \in Grid : CallNewPointClosesOutline(p)

(***************************************************************************)
(* Collision queries: a caller holds two shapes and a clearance, calls     *)
(* SHAPE::Collide one way and then the other way round.                    *)
(***************************************************************************)
VARIABLES
    qA, qB,         \* the two shapes
    qClr,           \* the clearance
    qSlots,         \* the output slots passed
    qPc,            \* "idle", "ready", "done", "swapped"
    qRes,           \* the result of A->Collide( B, ... )
    qRev            \* the result of B->Collide( A, ... )

qVars == <<qA, qB, qClr, qSlots, qPc, qRes, qRev>>

NullShape == [type |-> "SH_NULL"]

NoResult == Result(FALSE, CallerSlots(FALSE, FALSE, FALSE))

\* SHAPE::Collide( aShape, aClearance, aMTV ) and
\* SHAPE::Collide( aShape, aClearance, aActual, aLocation )
ShapeCollide(this, aShape, aClearance, o) == collideShapes(this, aShape, aClearance, o)

Collide ==
    /\ qPc = "ready"
    /\ qRes' = ShapeCollide(qA, qB, qClr, qSlots)
    /\ qPc' = "done"
    /\ UNCHANGED <<qA, qB, qClr, qSlots, qRev>>
    /\ UNCHANGED mgrVars

CollideSwapped ==
    /\ qPc = "done"
    /\ qRev' = ShapeCollide(qB, qA, qClr, qSlots)
    /\ qPc' = "swapped"
    /\ UNCHANGED <<qA, qB, qClr, qSlots, qRes>>
    /\ UNCHANGED mgrVars

QueryNext == Collide \/ CollideSwapped

QueryInit(poolA, poolB) ==
    /\ qA \in poolA
    /\ qB \in poolB
    /\ qClr \in 0..MaxClearance
    /\ qSlots \in EntrySlots
    /\ qPc = "ready"
    /\ qRes = NoResult
    /\ qRev = NoResult
    /\ MgrInit

QueryIdle ==
    /\ qA = NullShape
    /\ qB = NullShape
    /\ qClr = 0
    /\ qSlots = CallerSlots(FALSE, FALSE, FALSE)
    /\ qPc = "idle"
    /\ qRes = NoResult
    /\ qRev = NoResult

(***************************************************************************)
(* The shapes the queries are made with.                                   *)
(***************************************************************************)
Offsets == (0..MaxOffset) \X (0..MaxOffset)

MovePts(pts, d) == [i \in 1..Len(pts) |-> VAdd(pts[i], d)]

\* circle-circle: the first circle at the origin, the second around it
CirclesAtOrigin == {Circle(<<0, 0>>, r) : r \in 0..MaxRadius}

CirclesAround ==
    {Circle(<<x, y>>, r) : x \in (-MaxOffset)..MaxOffset, y \in (-MaxOffset)..MaxOffset,
                           r \in 0..MaxRadius}

SpecCircles == QueryInit(CirclesAtOrigin, CirclesAround) /\ [][QueryNext]_<<mgrVars, qVars>>

\* rect-circle: rectangles at the origin, circles inside and around them
RectsAtOrigin == {Rect(<<0, 0>>, <<w, h>>) : w \in 1..MaxOffset, h \in 1..MaxOffset}

CirclesNearRect ==
    {Circle(<<x, y>>, r) : x \in (-MaxOffset)..(2 * MaxOffset), y \in (-MaxOffset)..(2 * MaxOffset),
                           r \in 0..MaxRadius}

SpecRectCircle == QueryInit(RectsAtOrigin, CirclesNearRect) /\ [][QueryNext]_<<mgrVars, qVars>>

\* every pair of shape types: a shape of each type, moved about, against a shape of each type
Translate(sh, d) ==
    CASE sh.type = "SH_CIRCLE"  -> Circle(VAdd(sh.c, d), sh.r)
      [] sh.type = "SH_RECT"    -> Rect(VAdd(sh.p0, d), sh.size)
      [] sh.type = "SH_SEGMENT" -> Segment(VAdd(sh.seg[1], d), VAdd(sh.seg[2], d), sh.w)
      [] sh.type = "SH_ARC"     -> Arc(MovePts(sh.pts, d))
      [] OTHER                  -> [sh EXCEPT !.pts = MovePts(sh.pts, d)]

Templates ==
    {Circle(<<1, 1>>, r) : r \in 0..MaxRadius}
        \cup {Rect(<<0, 0>>, <<1, 1>>), Rect(<<0, 0>>, <<4, 3>>)}
        \cup {Segment(<<0, 0>>, <<2, 1>>, w) : w \in 0..MaxWidth}
        \cup {LineChain(<< <<0, 0>>, <<2, 0>>, <<2, 2>> >>, FALSE),
              LineChain(<< <<0, 0>>, <<4, 0>>, <<0, 4>> >>, TRUE),
              Simple(<< <<0, 0>>, <<3, 0>>, <<3, 3>>, <<0, 3>> >>),
              Arc(<< <<0, 1>>, <<1, 2>>, <<2, 1>> >>)}

MovedTemplates == {Translate(t, d) : t \in Templates, d \in Offsets}

SpecDispatch == QueryInit(MovedTemplates, Templates) /\ [][QueryNext]_<<mgrVars, qVars>>

\* compounds of a few leaf shapes against leaf shapes and compounds
Leaves ==
    {Circle(<<0, 0>>, 1), Circle(<<4, 0>>, 1), Rect(<<1, 0>>, <<1, 1>>),
     Segment(<<0, 2>>, <<3, 3>>, 1)}

RECURSIVE SeqsUpTo(_, _)
SeqsUpTo(S, n) ==
    IF n = 0 THEN {<<>>}
    ELSE LET shorter == SeqsUpTo(S, n - 1)
         IN  shorter \cup {Append(q, x) : q \in shorter, x \in S}

Compounds == {Compound(q) : q \in SeqsUpTo(Leaves, MaxSubShapes) \ {<<>>}}

SpecCompound ==
    QueryInit(Compounds \cup Leaves, Compounds \cup Leaves) /\ [][QueryNext]_<<mgrVars, qVars>>

\* compounds that own a compound as a sub-shape
FlatCompounds == {Compound(<<l>>) : l \in Leaves}

NestedCompounds ==
    {Compound(q) : q \in {n \in SeqsUpTo(Leaves \cup FlatCompounds, MaxSubShapes) :
                              \E k \in 1..Len(n) : n[k].type = "SH_COMPOUND"}}

SpecNested ==
    QueryInit(NestedCompounds, Compounds \cup Leaves) /\ [][QueryNext]_<<mgrVars, qVars>>

Init == MgrInit /\ QueryIdle

Next == MgrNext /\ UNCHANGED qVars

vars == <<mgrVars, qVars>>

Spec == Init /\ [][Next]_vars

(***************************************************************************)
(* Properties                                                              *)
(***************************************************************************)

\* C1: in every state reached by operations that all ran while self-intersections
\* were disallowed, the locked points, taken as a closed chain, do not self-intersect.
C1_LockedNeverSelfIntersects == strict => ~SelfIntersecting(lockedPoints, TRUE)

\* C1 witness: DeleteLastCorner has cut a four-point polygon back to three points
\* in a run that never allowed intersections.
C1_Witness ==
    /\ strict
    /\ ~intersectionsAllowed
    /\ lastCall.op = "DeleteLastCorner"
    /\ Len(lockedPoints) = 3

IsLeafPair == qA.type # "SH_COMPOUND" /\ qB.type # "SH_COMPOUND"

\* C2: for non-compound shapes, when a hit is reported with the MTV slot passed and
\* an MTV is written, the MTV of the call (A,B) is the negation of the MTV of (B,A).
C2_MTVNegatedWhenSwapped ==
    (/\ qPc = "swapped"
     /\ IsLeafPair
     /\ qSlots.wM
     /\ qRes.hit
     /\ (qRes.mtv # qSlots.mtv \/ qRev.mtv # qSlots.mtv))
        => qRes.mtv = VNeg(qRev.mtv)

\* C3: the boolean result for (A,B,c) equals the boolean result for (B,A,c), for
\* every pair of shape types, same-type pairs included.
C3_HitSymmetric == qPc = "swapped" => qRes.hit = qRev.hit

BothCircles == qA.type = "SH_CIRCLE" /\ qB.type = "SH_CIRCLE"

PointSegmentDistSq(p, s) ==
    LET d  == VSub(s[2], s[1])
        l2 == Dot(d, d)
        t  == Dot(d, VSub(p, s[1]))
    IN  IF l2 = 0 \/ t <= 0 THEN <<SquaredEuclideanNorm(VSub(p, s[1])), 1>>
        ELSE IF t >= l2 THEN <<SquaredEuclideanNorm(VSub(p, s[2])), 1>>
        ELSE <<Cross(d, VSub(p, s[1])) * Cross(d, VSub(p, s[1])), l2>>

FracLeq(a, b) == a[1] * b[2] <= b[1] * a[2]

BoundarySegments(sh) ==
    IF sh.type = "SH_SEGMENT" THEN {sh.seg}
    ELSE IF sh.type = "SH_RECT" THEN {RectSide(sh, i) : i \in 0..3}
    ELSE {GetSegment(sh, i) : i \in 0..(GetSegmentCount(sh) - 1)}

\* The exact squared distance from a point to a shape (a rectangle is solid).
PointShapeDistSq(p, sh) ==
    IF sh.type = "SH_CIRCLE" THEN <<SquaredEuclideanNorm(VSub(p, sh.c)), 1>>
    ELSE IF sh.type = "SH_RECT" /\ RectContains(sh, p) THEN <<0, 1>>
    ELSE LET fs == {PointSegmentDistSq(p, s) : s \in BoundarySegments(sh)}
         IN  CHOOSE f \in fs : \A g \in fs : FracLeq(f, g)

\* The distance between a circle and the other shape of an MTV pair, by the centre.
CentreDistSq(a, b) ==
    IF a.type = "SH_CIRCLE" THEN PointShapeDistSq(a.c, b) ELSE PointShapeDistSq(b.c, a)

IsMTVPair ==
    \/ (qA.type = "SH_CIRCLE"
          /\ qB.type \in {"SH_CIRCLE", "SH_LINE_CHAIN", "SH_SIMPLE", "SH_SEGMENT"})
    \/ (qA.type = "SH_RECT" /\ qB.type = "SH_CIRCLE")

\* C5: for the four routines that compute an MTV, a non-zero MTV of the call (A,B)
\* points away from B: moving A by it does not decrease the distance from A to B.
C5_MTVPointsAwayFromB ==
    (qPc = "done" /\ IsMTVPair /\ qSlots.wM /\ qRes.hit /\ qRes.mtv # <<0, 0>>)
        => FracLeq(CentreDistSq(qA, qB), CentreDistSq(Translate(qA, qRes.mtv), qB))

IsRectCircle == qA.type = "SH_RECT" /\ qB.type = "SH_CIRCLE"

\* C6: rect-circle with the circle centre inside or on the rectangle: the query
\* hits and, when the actual distance is requested, reports 0.
C6_CentreInsideHitsWithActualZero ==
    (qPc = "done" /\ IsRectCircle /\ RectContains(qA, qB.c))
        => (qRes.hit /\ (qSlots.wA => qRes.actual = 0))

\* The squared distance from a point outside the rectangle to its nearest boundary point.
RectDistSq(rect, p) ==
    LET dx == Max2(Max2(rect.p0[1] - p[1], p[1] - (rect.p0[1] + rect.size[1])), 0)
        dy == Max2(Max2(rect.p0[2] - p[2], p[2] - (rect.p0[2] + rect.size[2])), 0)
    IN  dx * dx + dy * dy

\* C7: rect-circle with the centre outside the rectangle: a hit if and only if the
\* distance from the centre to the nearest boundary point is strictly less than
\* clearance + radius.
C7_OutsideHitIffNearerThanClearance ==
    (qPc = "done" /\ IsRectCircle /\ ~RectContains(qA, qB.c))
        => (qRes.hit <=> RectDistSq(qA, qB.c) < (qClr + qB.r) * (qClr + qB.r))

\* C8: circle-circle hits if and only if the squared centre distance is strictly
\* less than (clearance + rA + rB)^2, and on a hit the actual distance reported is
\* max(0, floor(centre distance) - rA - rB).
C8_CircleCircleTestAndActual ==
    (qPc = "done" /\ BothCircles)
        => LET d2 == SquaredEuclideanNorm(VSub(qB.c, qA.c))
               m  == qClr + qA.r + qB.r
           IN  /\ qRes.hit <=> d2 < m * m
               /\ (qRes.hit /\ qSlots.wA)
                    => \E k \in 0..d2 : /\ k * k <= d2
                                        /\ (k + 1) * (k + 1) > d2
                                        /\ qRes.actual = Max2(0, k - qA.r - qB.r)

\* C8 witness: overlapping circles with distinct centres report the actual distance 0.
C8_Witness ==
    /\ qPc = "done" /\ BothCircles /\ qRes.hit /\ qSlots.wA
    /\ qA.c # qB.c
    /\ qRes.actual = 0

\* The cross product of sub-shape pairs, elemA outer and elemB inner (a
\* non-compound operand counts as its own single sub-shape).
RECURSIVE PairsFrom(_, _, _, _)
PairsFrom(as, bs, i, j) ==
    IF i > Len(as) THEN <<>>
    ELSE IF j > Len(bs) THEN PairsFrom(as, bs, i + 1, 1)
    ELSE <<[a |-> as[i], b |-> bs[j]]>> \o PairsFrom(as, bs, i, j + 1)

SubShapePairs(aA, aB) == PairsFrom(SubShapeList(aA), SubShapeList(aB), 1, 1)

HasCompound == qA.type = "SH_COMPOUND" \/ qB.type = "SH_COMPOUND"

\* Whether the sub-shape pair collides, and its results, as the dispatcher queries it.
PairResult(pr) == collideSingleShapes(pr.a, pr.b, qClr, SubSlots(qSlots))

QueryPairs == LET ps == SubShapePairs(qA, qB) IN {ps[k] : k \in 1..Len(ps)}

CollidingPairs == {pr \in QueryPairs : PairResult(pr).hit}

\* C9: with a compound operand the dispatcher hits if and only if at least one
\* sub-shape pair collides, whatever output slots are requested.
C9_CompoundHitIffSomePairHits ==
    (qPc = "done" /\ HasCompound) => (qRes.hit <=> CollidingPairs # {})

\* C9 witness: a boolean-only query whose first sub-shape pair misses and a later one hits.
C9_Witness ==
    /\ qPc = "done" /\ HasCompound /\ qRes.hit
    /\ ~qSlots.wA /\ ~qSlots.wL /\ ~qSlots.wM
    /\ ~PairResult(SubShapePairs(qA, qB)[1]).hit

\* C10: with a compound operand, on a hit with the actual distance requested, the
\* actual distance reported is the minimum over all colliding sub-shape pairs.
C10_CompoundActualIsMinimum ==
    (qPc = "done" /\ HasCompound /\ qRes.hit /\ qSlots.wA)
        => /\ \E pr \in CollidingPairs : PairResult(pr).actual = qRes.actual
           /\ \A pr \in CollidingPairs : qRes.actual <= PairResult(pr).actual

\* C10 witness: the first colliding pair has a positive actual distance and a
\* later pair has actual distance 0, which is the one reported.
C10_Witness ==
    /\ qPc = "done" /\ HasCompound /\ qRes.hit /\ qSlots.wA
    /\ qRes.actual = 0
    /\ PairResult(SubShapePairs(qA, qB)[1]).hit
    /\ PairResult(SubShapePairs(qA, qB)[1]).actual > 0

\* The colliding sub-shape pairs whose actual distance is the minimum.
NearestCollidingPairs ==
    {pr \in CollidingPairs :
        \A p2 \in CollidingPairs : PairResult(pr).actual <= PairResult(p2).actual}

\* C11: with a compound operand, on a hit with the location requested, the location
\* reported is the one produced by a colliding sub-shape pair of minimum actual
\* distance, whether or not the actual distance is requested too.
C11_CompoundLocationOfNearestPair ==
    (qPc = "done" /\ HasCompound /\ qRes.hit /\ qSlots.wL)
        => \E pr \in NearestCollidingPairs : PairResult(pr).loc = qRes.loc

\* C12: with a compound operand, on a hit with the MTV requested, the MTV reported
\* is the MTV of a colliding sub-shape pair and no colliding pair of the whole
\* cross product has a longer one; with one colliding pair it is that pair's MTV.
C12_CompoundMTVIsLargest ==
    (qPc = "done" /\ HasCompound /\ qRes.hit /\ qSlots.wM)
        => /\ \E pr \in CollidingPairs : PairResult(pr).mtv = qRes.mtv
           /\ \A pr \in CollidingPairs :
                  SquaredEuclideanNorm(PairResult(pr).mtv) <= SquaredEuclideanNorm(qRes.mtv)

\* C12 witness: two colliding pairs, the one met first having the longer MTV, which
\* is the one reported and is not the zero vector.
C12_Witness ==
    /\ qPc = "done" /\ HasCompound /\ qRes.hit /\ qSlots.wM
    /\ qRes.mtv # <<0, 0>>
    /\ Len(SubShapePairs(qA, qB)) = 2
    /\ PairResult(SubShapePairs(qA, qB)[1]).hit
    /\ PairResult(SubShapePairs(qA, qB)[2]).hit
    /\ SquaredEuclideanNorm(PairResult(SubShapePairs(qA, qB)[2]).mtv)
          < SquaredEuclideanNorm(PairResult(SubShapePairs(qA, qB)[1]).mtv)
    /\ PairResult(SubShapePairs(qA, qB)[2]).mtv # <<0, 0>>

\* The leaf shapes of a shape, compounds expanded to any depth.
RECURSIVE LeafShapes(_)
LeafShapes(sh) ==
    IF sh.type = "SH_COMPOUND"
    THEN UNION {LeafShapes(sh.shapes[k]) : k \in 1..Len(sh.shapes)}
    ELSE {sh}

HasNestedCompound(sh) ==
    /\ sh.type = "SH_COMPOUND"
    /\ \E k \in 1..Len(sh.shapes) : sh.shapes[k].type = "SH_COMPOUND"

\* C13: when a sub-shape of a compound operand is itself a compound, the
\* dispatcher hits if and only if some pair of leaf shapes collides.
C13_NestedHitIffLeafPairHits ==
    (qPc = "done" /\ HasNestedCompound(qA))
        => (qRes.hit <=> \E a \in LeafShapes(qA), b \in LeafShapes(qB) :
                            collideSingleShapes(a, b, qClr, SubSlots(qSlots)).hit)

\* The test of a shape against the bare segment underlying a SHAPE_SEGMENT, as the
\* four routines with a SHAPE_SEGMENT second operand call it.
SegTestTypes == {"SH_CIRCLE", "SH_RECT", "SH_SEGMENT", "SH_LINE_CHAIN", "SH_SIMPLE"}

UnderlyingSegTest(sh, aSeg, aClearance, o) ==
    CASE sh.type = "SH_CIRCLE"  -> CircleCollideSeg(sh, aSeg, aClearance, o)
      [] sh.type = "SH_RECT"    -> RectCollideSeg(sh, aSeg, aClearance, o)
      [] sh.type = "SH_SEGMENT" -> SegmentCollideSeg(sh, aSeg, aClearance, o)
      [] OTHER                  -> ChainCollideSeg(sh, aSeg, aClearance, o)

\* C14: a routine whose second operand is a SHAPE_SEGMENT hits exactly when the
\* test of the first operand against the underlying segment at clearance + width/2
\* hits, and the actual distance it reports is max( 0, the distance of that test
\* less width/2 ).
C14_HalfWidthAddedAndSubtracted ==
    (qPc = "done" /\ qA.type \in SegTestTypes /\ qB.type = "SH_SEGMENT")
        => LET t == UnderlyingSegTest(qA, qB.seg, qClr + qB.w \div 2, qSlots)
           IN  /\ qRes.hit = t.hit
               /\ (qRes.hit /\ qSlots.wA) => qRes.actual = Max2(0, t.actual - qB.w \div 2)

\* C15: a query on a pair of shape types without MTV support (no circle involved)
\* that passes an MTV slot leaves the slot as the caller passed it, hit or miss.
C15_UnsupportedMTVSlotUntouched ==
    (qPc = "done" /\ IsLeafPair /\ qSlots.wM
        /\ qA.type # "SH_CIRCLE" /\ qB.type # "SH_CIRCLE")
        => qRes.mtv = qSlots.mtv

C18_SetCursorPositionAlwaysNotifies ==
    lastCall.op = "SetCursorPosition" => lastCall.nGeom >= 1

\* C18 amended: a call of SetCursorPosition made while a point is locked fires
\* OnGeometryChange once, in either leader mode; a call made while no point is
\* locked fires nothing and leaves the leader as it was.
C18_SetCursorPositionNotifiesWhenInProgress ==
    [][lastCall'.op = "SetCursorPosition"
          => IF Len(lockedPoints) > 0
             THEN lastCall'.nGeom = 1
             ELSE lastCall'.nGeom = 0 /\ leaderPts' = leaderPts]_vars

\* C18 witness: SetCursorPosition has been called in 45-degree mode with two points
\* locked and has notified the client.
C18_Witness ==
    /\ lastCall.op = "SetCursorPosition"
    /\ leaderMode = "DEG45"
    /\ Len(lockedPoints) >= 2
    /\ lastCall.nGeom = 1
    /\ Len(leaderPts) >= 2

\* C19: DeleteLastCorner removes exactly the last locked point, nothing when there
\* is none, and when a point remains the leader afterwards is the one
\* SetCursorPosition( c ) would compute from the new last locked point in the
\* current mode, c being the argument of the most recent SetCursorPosition.
C19_DeleteLastCornerReusesCursor ==
    [][lastCall'.op = "DeleteLastCorner"
          => /\ lockedPoints' = (IF Len(lockedPoints) > 0
                                 THEN SubSeq(lockedPoints, 1, Len(lockedPoints) - 1)
                                 ELSE lockedPoints)
             /\ (Len(lockedPoints) > 1 /\ lastCursor # NoPt)
                   => leaderPts' = LeaderFor(SubSeq(lockedPoints, 1, Len(lockedPoints) - 1),
                                             lastCursor, leaderMode)]_vars

\* C20: Reset empties the locked points and the leader from any state, so no
\* polygon is in progress, fires OnGeometryChange once and leaves the leader mode
\* and the intersections flag alone.
C20_ResetClearsAndNotifiesOnce ==
    [][lastCall'.op = "Reset"
          => /\ lockedPoints' = <<>>
             /\ leaderPts' = <<>>
             /\ ~IsPolygonInProgress'
             /\ lastCall'.nGeom = 1
             /\ leaderMode' = leaderMode
             /\ intersectionsAllowed' = intersectionsAllowed]_vars

\* C20 witness: Reset has acted on a manager in 45-degree mode with intersections
\* disallowed and a cursor position set, so the state before it was not the
\* initial one.
C20_Witness ==
    /\ lastCall.op = "Reset"
    /\ lockedPoints = <<>> /\ leaderPts = <<>>
    /\ leaderMode = "DEG45"
    /\ ~intersectionsAllowed
    /\ lastCursor # NoPt

\* C21: SetFinished fires OnComplete once and nothing else, and leaves the locked
\* points, the leader, the leader mode and the intersections flag as they were, so
\* every operation called afterwards starts from the state it would have started
\* from without it.
C21_SetFinishedOnlyNotifies ==
    [][lastCall'.op = "SetFinished"
          => /\ lastCall'.nComplete = 1
             /\ lastCall'.nGeom = 0
             /\ lastCall'.ret = TRUE
             /\ UNCHANGED <<lockedPoints, leaderPts, leaderMode, intersectionsAllowed>>]_vars

\* C21 witness: SetFinished has been called on a polygon in progress with a leader.
C21_Witness ==
    /\ lastCall.op = "SetFinished"
    /\ lastCall.nComplete = 1
    /\ Len(lockedPoints) >= 2
    /\ Len(leaderPts) >= 2

\* C22: NewPointClosesOutline( pt ) returns true exactly when a point is locked and
\* pt is the first locked vertex, false when nothing is locked; it changes no
\* member and fires no callback.
C22_NewPointClosesOutlineIsFirstVertex ==
    [][lastCall'.op = "NewPointClosesOutline"
          => /\ lastCall'.ret = (Len(lockedPoints) > 0 /\ lastCall'.arg = lockedPoints[1])
             /\ (Len(lockedPoints) = 0 => lastCall'.ret = FALSE)
             /\ lastCall'.nGeom = 0 /\ lastCall'.nComplete = 0
             /\ UNCHANGED <<lockedPoints, leaderPts, leaderMode, intersectionsAllowed>>]_vars

\* C22 witness: the query has answered true for the first of several locked
\* vertices, which is not the last one.
C22_Witness ==
    /\ lastCall.op = "NewPointClosesOutline"
    /\ lastCall.ret = TRUE
    /\ Len(lockedPoints) >= 3
    /\ lockedPoints[1] = lastCall.arg
    /\ lockedPoints[Len(lockedPoints)] # lastCall.arg

\* C23: with a point locked, a SetCursorPosition( p ) that directly follows a
\* SetCursorPosition( p ) with the same p (hence the same mode and locked points)
\* leaves the leader exactly as the first call left it, whatever leader the first
\* call started from.
C23_SetCursorPositionIdempotent ==
    [][(/\ lastCall'.op = "SetCursorPosition"
        /\ Len(lockedPoints) > 0
        /\ lastCall.op = "SetCursorPosition"
        /\ lastCall.arg = lastCall'.arg)
          => /\ leaderPts' = leaderPts
             /\ Len(leaderPts') >= 2
             /\ leaderPts'[1] = lockedPoints[Len(lockedPoints)]]_vars

\* C23 witness: the state after SetCursorPosition( p ) in 45-degree mode with two
\* points locked, in which a second SetCursorPosition( p ) ends as well.
C23_Witness ==
    /\ lastCall.op = "SetCursorPosition"
    /\ lastCall.arg = lastCursor
    /\ leaderMode = "DEG45"
    /\ Len(lockedPoints) >= 2
    /\ leaderPts = LeaderFor(lockedPoints, lastCursor, leaderMode)
    /\ leaderPts[2] # lastCursor

\* C24: in every state in which the leader is not empty, a point is locked and
\* the first leader point is the last locked point.
C24_LeaderStartsAtLastLockedPoint ==
    Len(leaderPts) > 0
        => /\ Len(lockedPoints) > 0
           /\ leaderPts[1] = lockedPoints[Len(lockedPoints)]

\* C24 for the operations that recompute the leader: directly after a
\* SetCursorPosition with a point locked, and after a DeleteLastCorner that
\* leaves a point locked, the leader starts at the last locked point.
C24_RecomputedLeaderStartsAtLastLockedPoint ==
    (/\ lastCall.op \in {"SetCursorPosition", "DeleteLastCorner"}
     /\ Len(lockedPoints) > 0)
        => /\ Len(leaderPts) >= 2
           /\ leaderPts[1] = lockedPoints[Len(lockedPoints)]

\* The leader the 45-degree cases of C25 describe for the cursor aEndPoint.
C25_SnappedEnd(locked, aEndPoint) ==
    VAdd(locked[Len(locked)], GetVectorSnapped45(VSub(aEndPoint, locked[Len(locked)])))

C25_Bend(locked, aEndPoint) ==
    IF Len(locked) < 2 THEN NoPt
    ELSE BendPoint(locked, locked[Len(locked)], C25_SnappedEnd(locked, aEndPoint), aEndPoint)

C25_DescribedLeader(lastPt, newEnd, pt) ==
    IF pt = NoPt THEN <<lastPt, newEnd>>
    ELSE IF SegCollinear(<<lastPt, newEnd>>, <<newEnd, pt>>) THEN <<lastPt, newEnd>>
    ELSE <<lastPt, newEnd, pt>>

\* C25: after SetCursorPosition( p ) in 45-degree mode with a point locked, the
\* leader is (last locked point, snapped end) when no bend point is found, when
\* fewer than two points are locked, or when the bend point is collinear with the
\* snapped segment, and (last locked point, snapped end, bend point) otherwise.
C25_Deg45LeaderCases ==
    (lastCall.op = "SetCursorPosition" /\ lastCall.ret /\ leaderMode = "DEG45")
        => leaderPts = C25_DescribedLeader(lockedPoints[Len(lockedPoints)],
                                           C25_SnappedEnd(lockedPoints, lastCall.arg),
                                           C25_Bend(lockedPoints, lastCall.arg))

\* C25, the cases that hold: without a bend point the leader is (last locked
\* point, snapped end); with a bend point the leader ends at the bend point.
C25_Deg45LeaderEndsAtBend ==
    (lastCall.op = "SetCursorPosition" /\ lastCall.ret /\ leaderMode = "DEG45")
        => IF C25_Bend(lockedPoints, lastCall.arg) = NoPt
           THEN leaderPts = <<lockedPoints[Len(lockedPoints)],
                              C25_SnappedEnd(lockedPoints, lastCall.arg)>>
           ELSE /\ leaderPts[1] = lockedPoints[Len(lockedPoints)]
                /\ leaderPts[Len(leaderPts)] = C25_Bend(lockedPoints, lastCall.arg)

IsCircleChain == qA.type = "SH_CIRCLE" /\ qB.type \in {"SH_LINE_CHAIN", "SH_SIMPLE"}

\* C26: after a circle vs line-chain hit with the MTV requested, the circle centre
\* moved by the MTV is at distance at least clearance + radius (the distance
\* pushoutForce measures) from every segment of the chain.
C26_CircleMovedByMTVClearsEverySegment ==
    (qPc = "done" /\ IsCircleChain /\ qSlots.wM /\ qRes.hit)
        => \A s \in 0..(GetSegmentCount(qB) - 1) :
               SegDistancePt(GetSegment(qB, s), VAdd(qA.c, qRes.mtv)) >= qClr + qA.r

\* C27: a SetCursorPosition made while no point is locked is abandoned: the locked
\* points and the leader are left exactly as they were (so is the rest of the
\* configuration) and the client is not notified.
C27_SetCursorPositionWithoutPointsAbandoned ==
    [][(lastCall'.op = "SetCursorPosition" /\ Len(lockedPoints) = 0)
          => /\ lockedPoints' = <<>>
             /\ leaderPts' = leaderPts
             /\ UNCHANGED <<leaderMode, intersectionsAllowed>>
             /\ lastCall'.ret = FALSE
             /\ lastCall'.nGeom = 0 /\ lastCall'.nComplete = 0]_vars

\* C27 witness: SetCursorPosition( p ) was abandoned in a state whose leader, left
\* over from a polygon emptied by DeleteLastCorner, ends elsewhere than at p.
C27_Witness ==
    /\ lastCall.op = "SetCursorPosition"
    /\ ~lastCall.ret
    /\ Len(lockedPoints) = 0
    /\ Len(leaderPts) = 2
    /\ leaderPts[2] # lastCall.arg
    /\ leaderMode = "DEG45"

\* C28: for the same two shapes and the same clearance, the boolean result of
\* SHAPE::Collide is the same whichever output slots are passed.
C28_HitIndependentOfSlots ==
    qPc = "done" => \A o \in EntrySlots : ShapeCollide(qA, qB, qClr, o).hit = qRes.hit

\* C29: whenever no point is locked the leader is empty, and an AddPoint( p ) made
\* while no point is locked that returns true locks exactly p as the first vertex.
C29_EmptyPolygonHasNoLeader ==
    [][/\ Len(lockedPoints') = 0 => Len(leaderPts') = 0
       /\ (lastCall'.op = "AddPoint" /\ lastCall'.ret /\ Len(lockedPoints) = 0)
             => lockedPoints' = <<lastCall'.arg>>]_vars

\* C29, the second half alone: the first vertex locked is the point passed.
C29_FirstVertexIsPointPassed ==
    [][(lastCall'.op = "AddPoint" /\ lastCall'.ret /\ Len(lockedPoints) = 0)
          => lockedPoints' = <<lastCall'.arg>>]_vars

IsSegmentIterating ==
    /\ qA.type \in {"SH_CIRCLE", "SH_RECT", "SH_LINE_CHAIN", "SH_SIMPLE"}
    /\ qB.type \in {"SH_LINE_CHAIN", "SH_SIMPLE"}

\* C30: a segment-iterating routine (circle, line chain or rect against a line
\* chain) returns true whenever the per-segment test of the first shape hits at
\* least one segment of the chain at the clearance given, clearance 0 included.
C30_HitWhenSomeSegmentHits ==
    (/\ qPc = "done"
     /\ IsSegmentIterating
     /\ \E s \in 0..(GetSegmentCount(qB) - 1) :
            UnderlyingSegTest(qA, GetSegment(qB, s), qClr, SegSlots(qSlots)).hit)
        => qRes.hit

\* C30 for positive clearances only.
C30_HitWhenSomeSegmentHitsAtPositiveClearance ==
    (/\ qPc = "done"
     /\ qClr > 0
     /\ IsSegmentIterating
     /\ \E s \in 0..(GetSegmentCount(qB) - 1) :
            UnderlyingSegTest(qA, GetSegment(qB, s), qClr, SegSlots(qSlots)).hit)
        => qRes.hit

====
